---------------------------- MODULE Spec2Model ----------------------------
(***************************************************************************)
(* Template-driven structured-output extraction (TemplateParser) and the   *)
(* retry controller of LLM.call.                                           *)
(*                                                                         *)
(* Text is a sequence of lexemes.  A lexeme is one character of the        *)
(* program's text, except for a few words the program only ever handles    *)
(* as a whole and that are written as one lexeme here: the tag name        *)
(* "think", a JSON key with its colon ("l2:" is the text "l2": with its    *)
(* quotes) and a quoted JSON string ("'x'" is the text "x" with its        *)
(* quotes).  Offsets are the program's 0-based offsets.                    *)
(***************************************************************************)
EXTENDS Integers, Sequences, FiniteSets, TLC

\* ------------------------------------------------------------------ bounds
\* the length of the enumerated part of a text given to validate()
MaxLen == 5
\* the largest max_retry given to LLM.call
MaxRetry == 2
\* the length of the enumerated part of a provider output
MaxReply == 2
\* the number of threads that share one parser
MaxThreads == 2
\* the days that pass while a parser is in use
MaxDay == 2
\* the get_format_instructions() calls that are recorded
MaxCalls == 2
\* the largest max_iterations and max_consecutive_tools of an Agent
MaxIter == 4

\* ------------------------------------------------------- string primitives
Min(S) == CHOOSE x \in S : \A y \in S : x <= y
Max(S) == CHOOSE x \in S : \A y \in S : x >= y

WS == {" ", "\n"}
Digits == {"0", "1", "2", "3", "4", "5", "6", "7", "8", "9"}

\* s[a:b] and s[a:]
Slice(s, a, b) == SubSeq(s, a + 1, b)
SliceFrom(s, a) == SubSeq(s, a + 1, Len(s))

\* str.startswith(sub, idx)
StartsWith(s, sub, idx) ==
    /\ idx + Len(sub) <= Len(s)
    /\ Slice(s, idx, idx + Len(sub)) = sub

\* str.find(sub, start): the lowest offset >= start, or -1
MinOr(S, d) == IF S = {} THEN d ELSE Min(S)
MaxOr(S, d) == IF S = {} THEN d ELSE Max(S)

Find(s, sub, start) ==
    MinOr({i \in start..(Len(s) - Len(sub)) : StartsWith(s, sub, i)}, -1)

\* str.rfind(sub, start): the highest offset >= start, or -1
RFind(s, sub, start) ==
    MaxOr({i \in start..(Len(s) - Len(sub)) : StartsWith(s, sub, i)}, -1)

\* str.strip(), str.rstrip()
Strip(s) ==
    IF \A i \in 1..Len(s) : s[i] \in WS THEN <<>>
    ELSE SubSeq(s, Min({i \in 1..Len(s) : s[i] \notin WS}),
                   Max({i \in 1..Len(s) : s[i] \notin WS}))

RStrip(s) ==
    IF \A i \in 1..Len(s) : s[i] \in WS THEN <<>>
    ELSE SubSeq(s, 1, Max({i \in 1..Len(s) : s[i] \notin WS}))

\* re.finditer(re.escape(sub), s): the starts of the leftmost non-overlapping
\* occurrences, scanning from offset `from`
RECURSIVE FindIter(_, _, _)
FindIterAt(s, sub, i) ==
    IF i = -1 THEN <<>>
    ELSE <<i>> \o FindIter(s, sub, i + (IF Len(sub) = 0 THEN 1 ELSE Len(sub)))
FindIter(s, sub, from) == FindIterAt(s, sub, Find(s, sub, from))

\* ---------------------------------------------------------- strip_think_tags
IsThink(c) == c \in {"think", "THINK"}
IsOpenTag(s, i) ==
    /\ i + 3 <= Len(s)
    /\ s[i + 1] = "<" /\ IsThink(s[i + 2]) /\ s[i + 3] = ">"
IsCloseTag(s, i) ==
    /\ i + 4 <= Len(s)
    /\ s[i + 1] = "<" /\ s[i + 2] = "/" /\ IsThink(s[i + 3]) /\ s[i + 4] = ">"

\* re.sub(r'(?is)<think>.*?</think>', '', text)
RECURSIVE RemovePaired(_)
RemovePairedAt(s, i, closes) ==
    IF i = -1 THEN s
    ELSE Slice(s, 0, i) \o RemovePaired(SliceFrom(s, Min({x \in closes : x >= i + 3}) + 4))
RemovePairedIn(s, closes) ==
    RemovePairedAt(s, MinOr({i \in 0..(Len(s) - 3) :
                               IsOpenTag(s, i) /\ \E j \in closes : j >= i + 3}, -1), closes)
RemovePaired(s) == RemovePairedIn(s, {j \in 0..(Len(s) - 4) : IsCloseTag(s, j)})

\* the length of a match of </?think\s*/?> at offset i, or 0
RECURSIVE SkipWS(_, _)
SkipWS(s, i) == IF i < Len(s) /\ s[i + 1] \in WS THEN SkipWS(s, i + 1) ELSE i

OrphanEnd(s, i, b) ==
    IF b < Len(s) /\ s[b + 1] = ">" THEN b + 1 - i
    ELSE IF b + 1 < Len(s) /\ s[b + 1] = "/" /\ s[b + 2] = ">" THEN b + 2 - i
    ELSE 0
OrphanName(s, i, a) ==
    IF a < Len(s) /\ IsThink(s[a + 1]) THEN OrphanEnd(s, i, SkipWS(s, a + 1)) ELSE 0
OrphanLen(s, i) ==
    IF ~(i < Len(s) /\ s[i + 1] = "<") THEN 0
    ELSE OrphanName(s, i, IF i + 1 < Len(s) /\ s[i + 2] = "/" THEN i + 2 ELSE i + 1)

\* re.sub(r'(?i)</?think\s*/?>', '', cleaned)
RECURSIVE RemoveOrphans(_)
RemoveOrphansAt(s, i) ==
    IF i = -1 THEN s
    ELSE Slice(s, 0, i) \o RemoveOrphans(SliceFrom(s, i + OrphanLen(s, i)))
RemoveOrphans(s) ==
    RemoveOrphansAt(s, MinOr({i \in 0..(Len(s) - 1) : OrphanLen(s, i) > 0}, -1))

\* "\n".join(line for line in (l.rstrip() for l in s.splitlines()) if line)
RECURSIVE JoinLines(_)
JoinTwo(head, tail) ==
    IF head = <<>> THEN tail
    ELSE IF tail = <<>> THEN head
    ELSE head \o <<"\n">> \o tail
JoinLinesAt(s, nl) ==
    IF nl = -1 THEN RStrip(s)
    ELSE JoinTwo(RStrip(Slice(s, 0, nl)), JoinLines(SliceFrom(s, nl + 1)))
JoinLines(s) == JoinLinesAt(s, Find(s, <<"\n">>, 0))

strip_think_tags(text) ==
    IF text = <<>> THEN text
    ELSE Strip(JoinLines(RemoveOrphans(RemovePaired(text))))


\* ------------------------------------------------------------------ values
\* A typed value: an int (n), a str (s, its lexemes), a bool (n is 0 or 1),
\* an object dict or a list (m, members [k, v] in insertion order), or null.
VNull == [t |-> "null", n |-> 0, s |-> <<>>, m |-> <<>>]
VInt(x) == [t |-> "int", n |-> x, s |-> <<>>, m |-> <<>>]
VStr(x) == [t |-> "str", n |-> 0, s |-> x, m |-> <<>>]
VBool(b) == [t |-> "bool", n |-> IF b THEN 1 ELSE 0, s |-> <<>>, m |-> <<>>]
VObj(ms) == [t |-> "obj", n |-> 0, s |-> <<>>, m |-> ms]
VList(ms) == [t |-> "list", n |-> 0, s |-> <<>>, m |-> ms]

\* a Python dict as the sequence of its items [k, v] in insertion order
DictHas(d, key) == \E i \in 1..Len(d) : d[i].k = key
DictGet(d, key) == d[CHOOSE i \in 1..Len(d) : d[i].k = key].v
DictSet(d, key, val) ==
    IF DictHas(d, key)
    THEN [i \in 1..Len(d) |-> IF d[i].k = key THEN [k |-> key, v |-> val] ELSE d[i]]
    ELSE Append(d, [k |-> key, v |-> val])

DigitVal(c) ==
    CASE c = "0" -> 0 [] c = "1" -> 1 [] c = "2" -> 2 [] c = "3" -> 3 [] c = "4" -> 4
      [] c = "5" -> 5 [] c = "6" -> 6 [] c = "7" -> 7 [] c = "8" -> 8 [] c = "9" -> 9

\* int("012") = 12
RECURSIVE ToInt(_)
ToInt(ds) ==
    IF ds = <<>> THEN 0
    ELSE 10 * ToInt(SubSeq(ds, 1, Len(ds) - 1)) + DigitVal(ds[Len(ds)])

AllDigits(s) == s # <<>> /\ \A i \in 1..Len(s) : s[i] \in Digits

\* the length of the run of digits at offset i (the match of \d+ there)
RECURSIVE DigitRun(_, _)
DigitRun(s, i) == IF i < Len(s) /\ s[i + 1] \in Digits THEN 1 + DigitRun(s, i + 1) ELSE 0

\* ------------------------------------------------------------- json.loads
JsonKeys == {"l2:", "value:", "foo:", "num:", "rows:", "a:", "b:"}
KeyName(c) ==
    CASE c = "l2:" -> "l2" [] c = "value:" -> "value" [] c = "foo:" -> "foo" [] c = "num:" -> "num"
      [] c = "rows:" -> "rows" [] c = "a:" -> "a" [] c = "b:" -> "b"
JsonStrings == {"'x'", "'y'"}
StrOf(c) == CASE c = "'x'" -> <<"x">> [] c = "'y'" -> <<"y">>

JsonFail == [ok |-> FALSE, v |-> VNull, i |-> 0]

RECURSIVE JsonValue(_, _)
RECURSIVE JsonMembers(_, _, _)
RECURSIVE JsonItems(_, _, _)

\* the members of an object, from offset i (after "{" or after ",")
JsonMembersNext(s, ok, j, got) ==
    IF ~ok \/ j >= Len(s) THEN JsonFail
    ELSE IF s[j + 1] = "}" THEN [ok |-> TRUE, v |-> VObj(got), i |-> j + 1]
    ELSE IF s[j + 1] = "," THEN JsonMembers(s, SkipWS(s, j + 1), got)
    ELSE JsonFail
JsonMembersGot(s, key, acc, r) ==
    JsonMembersNext(s, r.ok, SkipWS(s, r.i), DictSet(acc, key, r.v))
JsonMembers(s, i, acc) ==
    IF ~(i < Len(s) /\ s[i + 1] \in JsonKeys) THEN JsonFail
    ELSE JsonMembersGot(s, KeyName(s[i + 1]), acc, JsonValue(s, i + 1))

\* the items of an array, from offset i (after "[" or after ",")
JsonItemsNext(s, ok, j, got) ==
    IF ~ok \/ j >= Len(s) THEN JsonFail
    ELSE IF s[j + 1] = "]" THEN [ok |-> TRUE, v |-> VList(got), i |-> j + 1]
    ELSE IF s[j + 1] = "," THEN JsonItems(s, j + 1, got)
    ELSE JsonFail
JsonItemsGot(s, acc, r) ==
    JsonItemsNext(s, r.ok, SkipWS(s, r.i), Append(acc, [k |-> "", v |-> r.v]))
JsonItems(s, i, acc) == JsonItemsGot(s, acc, JsonValue(s, i))

\* a string spelled with its quotes as lexemes, from offset a (after the
\* opening quote) to the closing quote at offset b; an escaped quote or line
\* break is one lexeme, a raw line break is not allowed
JsonString(s, a, b) ==
    IF b = -1 \/ \E i \in (a + 1)..b : s[i] = "\n" THEN JsonFail
    ELSE [ok |-> TRUE, i |-> b + 1,
          v |-> VStr([i \in 1..(b - a) |->
                        IF s[a + i] = "\\\"" THEN "\""
                        ELSE IF s[a + i] = "\\n" THEN "\n" ELSE s[a + i]])]

\* one JSON value at offset i (leading whitespace skipped); i is the offset
\* after it
JsonNumber(s, j, n) == [ok |-> TRUE, v |-> VInt(ToInt(Slice(s, j, j + n))), i |-> j + n]
JsonValueAt(s, j, c, k) ==
    IF c = "{"
    THEN IF k < Len(s) /\ s[k + 1] = "}"
         THEN [ok |-> TRUE, v |-> VObj(<<>>), i |-> k + 1]
         ELSE JsonMembers(s, k, <<>>)
    ELSE IF c = "["
    THEN IF k < Len(s) /\ s[k + 1] = "]"
         THEN [ok |-> TRUE, v |-> VList(<<>>), i |-> k + 1]
         ELSE JsonItems(s, k, <<>>)
    ELSE IF c \in JsonStrings THEN [ok |-> TRUE, v |-> VStr(StrOf(c)), i |-> j + 1]
    ELSE IF c = "\"" THEN JsonString(s, j + 1, Find(s, <<"\"">>, j + 1))
    ELSE IF c = "0" THEN [ok |-> TRUE, v |-> VInt(0), i |-> j + 1]
    ELSE IF c \in Digits THEN JsonNumber(s, j, DigitRun(s, j))
    ELSE JsonFail
JsonValueFrom(s, j) ==
    IF j >= Len(s) THEN JsonFail ELSE JsonValueAt(s, j, s[j + 1], SkipWS(s, j + 1))
JsonValue(s, i) == JsonValueFrom(s, SkipWS(s, i))

\* json.loads(s): [ok, v]; not ok is the JSONDecodeError
JsonWhole(s, r) ==
    IF r.ok /\ SkipWS(s, r.i) = Len(s) THEN [ok |-> TRUE, v |-> r.v]
    ELSE [ok |-> FALSE, v |-> VNull]
json_loads(s) == JsonWhole(s, JsonValue(s, 0))

\* ------------------------------------------------------------- json.dumps
DigitChar(n) ==
    CASE n = 0 -> "0" [] n = 1 -> "1" [] n = 2 -> "2" [] n = 3 -> "3" [] n = 4 -> "4"
      [] n = 5 -> "5" [] n = 6 -> "6" [] n = 7 -> "7" [] n = 8 -> "8" [] n = 9 -> "9"
RECURSIVE IntText(_)
IntText(n) == IF n < 10 THEN <<DigitChar(n)>> ELSE IntText(n \div 10) \o <<DigitChar(n % 10)>>
KeyLexeme(k) ==
    CASE k = "l2" -> "l2:" [] k = "value" -> "value:" [] k = "foo" -> "foo:" [] k = "num" -> "num:"
      [] k = "rows" -> "rows:" [] k = "a" -> "a:" [] k = "b" -> "b:" [] k = "day" -> "day:"

\* json.dumps(v, ensure_ascii=False): the separators are ", " and ": ", a str
\* is spelled with its quotes and its quotes and line breaks escaped
RECURSIVE json_dumps(_)
json_dumps(v) ==
    LET RECURSIVE Members(_)
        Members(i) ==
            IF i > Len(v.m) THEN <<>>
            ELSE (IF i > 1 THEN <<",", " ">> ELSE <<>>)
                 \o (IF v.t = "obj" THEN <<KeyLexeme(v.m[i].k), " ">> ELSE <<>>)
                 \o json_dumps(v.m[i].v) \o Members(i + 1)
    IN  IF v.t = "int" THEN IntText(v.n)
        ELSE IF v.t = "str"
        THEN <<"\"">> \o [i \in 1..Len(v.s) |->
                            IF v.s[i] = "\"" THEN "\\\""
                            ELSE IF v.s[i] = "\n" THEN "\\n" ELSE v.s[i]] \o <<"\"">>
        ELSE IF v.t = "obj" THEN <<"{">> \o Members(1) \o <<"}">>
        ELSE <<"[">> \o Members(1) \o <<"]">>

\* ------------------------------------------------------- pydantic models
\* the BaseModel classes of the tests: class name -> declared fields, and
\* PairModel, a schema with two fields that are lists of records, and Event,
\* a schema with a datetime.date field
ModelNames == {"Level1", "Level2", "MyModel", "RowModel", "TableModel", "PairModel", "Event"}
ModelFields(cls) ==
    CASE cls = "Level1" -> <<[name |-> "l2", typ |-> "Level2"]>>
      [] cls = "Level2" -> <<[name |-> "value", typ |-> "int"]>>
      [] cls = "MyModel" -> <<[name |-> "foo", typ |-> "str"], [name |-> "num", typ |-> "str"]>>
      [] cls = "RowModel" -> <<[name |-> "foo", typ |-> "str"], [name |-> "num", typ |-> "int"]>>
      [] cls = "TableModel" -> <<[name |-> "rows", typ |-> "List[RowModel]"]>>
      [] cls = "PairModel" -> <<[name |-> "a", typ |-> "List[RowModel]"],
                                [name |-> "b", typ |-> "List[RowModel]"]>>
      [] cls = "Event" -> <<[name |-> "foo", typ |-> "str"], [name |-> "day", typ |-> "date"]>>

\* the element class of a List[...] annotation, "" for any other annotation
ElemOf(typ) == IF typ = "List[RowModel]" THEN "RowModel" ELSE ""

\* jsonschema_validate(instance, cls.model_json_schema()) followed by
\* cls.model_validate(instance): an object with every declared field present
\* and of its declared type, at every depth; other members are allowed
RECURSIVE Conforms(_, _)
ConformsField(v, f) ==
    /\ DictHas(v.m, f.name)
    /\ IF f.typ \in ModelNames THEN Conforms(DictGet(v.m, f.name), f.typ)
       ELSE IF ElemOf(f.typ) # ""
       THEN /\ DictGet(v.m, f.name).t = "list"
            /\ \A i \in 1..Len(DictGet(v.m, f.name).m) :
                  Conforms(DictGet(v.m, f.name).m[i].v, ElemOf(f.typ))
       ELSE DictGet(v.m, f.name).t = f.typ
Conforms(v, cls) ==
    /\ v.t = "obj"
    /\ \A i \in 1..Len(ModelFields(cls)) : ConformsField(v, ModelFields(cls)[i])

\* model_dump() of the validated instance: the declared fields, in order
RECURSIVE ModelDump(_, _)
DumpField(f, x) ==
    [k |-> f.name,
     v |-> IF f.typ \in ModelNames THEN ModelDump(x, f.typ)
           ELSE IF ElemOf(f.typ) # ""
           THEN VList([i \in 1..Len(x.m) |-> [k |-> "", v |-> ModelDump(x.m[i].v, ElemOf(f.typ))]])
           ELSE x]
ModelDump(v, cls) ==
    VObj([i \in 1..Len(ModelFields(cls)) |->
            DumpField(ModelFields(cls)[i], DictGet(v.m, ModelFields(cls)[i].name))])


\* --------------------------------------------------------- parse_template
\* A template is a sequence of elements: a literal lexeme, or a placeholder
\* {name:typ}, {name:str:regex=P} or {name:json:Model}.
Lit(c) == [k |-> "lit", c |-> c, name |-> "", typ |-> "", regex |-> "", model |-> ""]
PH(name, typ, regex, model) ==
    [k |-> "ph", c |-> "", name |-> name, typ |-> typ, regex |-> regex, model |-> model]

\* the keys of type_map; "json" and "any" both map to typing.Any
TypeMapKeys == {"int", "float", "str", "bool", "list[str]", "list[int]", "dict", "json", "any"}

\* the mutation of FieldType that drops the regex constraint
FieldTypeNoRegex(e, model_map) ==
    IF e.typ = "json" /\ e.model # "" /\ e.model \in model_map
    THEN [tag |-> "model", arg |-> e.model]
    ELSE IF e.typ \in TypeMapKeys
    THEN [tag |-> IF e.typ = "json" THEN "any" ELSE e.typ, arg |-> ""]
    ELSE [tag |-> "str", arg |-> ""]

\* the type a placeholder gets: lines 254-261
FieldType(e, model_map) ==
    IF e.typ = "str" /\ e.regex # "" THEN [tag |-> "regex", arg |-> e.regex]
    ELSE IF e.typ = "json" /\ e.model # "" /\ e.model \in model_map
    THEN [tag |-> "model", arg |-> e.model]
    ELSE IF e.typ \in TypeMapKeys
    THEN [tag |-> IF e.typ = "json" THEN "any" ELSE e.typ, arg |-> ""]
    ELSE [tag |-> "str", arg |-> ""]

\* the loop over the placeholders: fields is a dict (a repeated name
\* overwrites), segments gets the literal text before each placeholder
RECURSIVE TemplateScan(_, _, _, _, _, _)
TemplateScan(template, model_map, i, lit, fields, segments) ==
    IF i > Len(template) THEN [fields |-> fields, segments |-> Append(segments, lit)]
    ELSE IF template[i].k = "lit"
    THEN TemplateScan(template, model_map, i + 1, Append(lit, template[i].c), fields, segments)
    ELSE TemplateScan(template, model_map, i + 1, <<>>,
                      DictSet(fields, template[i].name, FieldType(template[i], model_map)),
                      Append(segments, lit))

parse_template(template, model_map) ==
    TemplateScan(template, model_map, 1, <<>>, <<>>, <<>>)

\* TemplateParser.__init__
TemplateParser(template, model_map) ==
    LET r == parse_template(template, model_map)
    IN  [template |-> template, model_map |-> model_map,
         fields |-> r.fields, segments |-> r.segments]


\* ------------------------------------------------ strict_parse_llm_output
\* an error: the exception's message, as its kind, the field and the literal
\* it names
NoErr == [kind |-> "", field |-> "", lit |-> <<>>]
Err(kind, field, lit) == [kind |-> kind, field |-> field, lit |-> lit]

\* the local variable `value`: unbound until a branch assigns it
Unbound == [set |-> FALSE, s |-> <<>>]
Bound(x) == [set |-> TRUE, s |-> x]

IsBrace(typ) == typ.tag \in {"dict", "any", "model"}
IsList(typ) == typ.tag \in {"list[str]", "list[int]"}
BoolTokens == {"true", "false", "True", "False", "1", "0"}

\* the offset in mo, at or after idx, where a value of the type starts when no
\* literal precedes the field (lines 291-321), or -1
Locate(typ, mo, idx) ==
    MinOr(IF typ.tag \in {"int", "float"}
          THEN {i \in idx..(Len(mo) - 1) : mo[i + 1] \in Digits}
          ELSE IF typ.tag = "bool"
          THEN {i \in idx..(Len(mo) - 1) : mo[i + 1] \in BoolTokens}
          ELSE IF IsList(typ)
          THEN {i \in idx..(Len(mo) - 1) :
                  /\ mo[i + 1] = "["
                  /\ \E j \in (i + 1)..(Len(mo) - 1) :
                       /\ mo[j + 1] = "]"
                       /\ \A x \in (i + 1)..(j - 1) : mo[x + 1] # "\n"}
          ELSE IF IsBrace(typ)
          THEN {i \in idx..(Len(mo) - 1) :
                  /\ mo[i + 1] = "{"
                  /\ \E j \in (i + 1)..(Len(mo) - 1) : mo[j + 1] = "}"}
          ELSE {idx}, -1)

\* the bracket-counting loop (lines 327-336): the offset in remain of the
\* close that brings the count back to 0, or -1 when the loop runs out
RECURSIVE BalancedEnd(_, _, _, _, _)
BalancedEnd(remain, open, close, i, count) ==
    IF i >= Len(remain) THEN -1
    ELSE IF remain[i + 1] = open THEN BalancedEnd(remain, open, close, i + 1, count + 1)
    ELSE IF remain[i + 1] = close
    THEN IF count - 1 = 0 THEN i
         ELSE BalancedEnd(remain, open, close, i + 1, count - 1)
    ELSE BalancedEnd(remain, open, close, i + 1, count)

\* the value's end by the literal that follows it (lines 339-343, 356-367)
ByLiteralAt(remain, idx, seg_end, value, next_pos) ==
    IF next_pos = -1
    THEN [st |-> "ValueError", idx |-> idx, value |-> value,
          err |-> Err("MissingEnd", "", seg_end)]
    ELSE [st |-> "ok", idx |-> idx + next_pos,
          value |-> Bound(Strip(Slice(remain, 0, next_pos))), err |-> NoErr]
\* the mutation of ByLiteral that ends the value at the last occurrence of
\* the literal (rfind in place of find)
ByLiteralLast(remain, idx, seg_end, value) ==
    ByLiteralAt(remain, idx, seg_end, value, RFind(remain, seg_end, 0))
ByLiteral(remain, idx, seg_end, value) ==
    ByLiteralAt(remain, idx, seg_end, value, Find(remain, seg_end, 0))

\* the value by bracket counting, else by the literal (lines 326-360)
ByBracketAt(remain, idx, seg_end, value, e) ==
    IF e # -1
    THEN [st |-> "ok", idx |-> idx + e + 1,
          value |-> Bound(Strip(Slice(remain, 0, e + 1))), err |-> NoErr]
    ELSE ByLiteral(remain, idx, seg_end, value)
ByBracket(remain, idx, seg_end, open, close, value) ==
    ByBracketAt(remain, idx, seg_end, value, BalancedEnd(remain, open, close, 0, 0))

\* a field followed by a literal (lines 323-367)
EndByLiteralIn(typ, remain, idx, seg_end, value) ==
    IF IsBrace(typ) /\ StartsWith(remain, <<"{">>, 0)
    THEN ByBracket(remain, idx, seg_end, "{", "}", value)
    ELSE IF IsList(typ) /\ StartsWith(remain, <<"[">>, 0)
    THEN ByBracket(remain, idx, seg_end, "[", "]", value)
    ELSE ByLiteral(remain, idx, seg_end, value)
EndByLiteral(typ, mo, idx, seg_end, value) ==
    EndByLiteralIn(typ, SliceFrom(mo, idx), idx, seg_end, value)

\* the length of the match of ^(\d+(\.\d+)?) in remain
FloatFrac(a, b) == IF b > 0 THEN a + 1 + b ELSE a
FloatInt(remain, a) ==
    FloatFrac(a, IF a > 0 /\ a < Len(remain) /\ remain[a + 1] = "."
                 THEN DigitRun(remain, a + 1) ELSE 0)
FloatRun(remain) == FloatInt(remain, DigitRun(remain, 0))

\* the length of the match of ^(\[.*?\]) in remain, or 0
ListRun(remain) ==
    IF StartsWith(remain, <<"[">>, 0)
    THEN MinOr({j \in 1..(Len(remain) - 1) :
                  /\ remain[j + 1] = "]"
                  /\ \A x \in 1..(j - 1) : remain[x + 1] # "\n"}, -1) + 1
    ELSE 0

\* a field followed by no literal (lines 368-422): the first n lexemes of
\* remain are the value; n = 0 is no match, which is an error (bad) or takes
\* the rest of the window (not bad)
TailRun(remain, idx, name, value, n, bad) ==
    IF n > 0
    THEN [st |-> "ok", idx |-> idx + n, value |-> Bound(Slice(remain, 0, n)), err |-> NoErr]
    ELSE IF bad
    THEN [st |-> "ValueError", idx |-> idx, value |-> value, err |-> Err("BadTail", name, <<>>)]
    ELSE [st |-> "ok", idx |-> idx + Len(remain), value |-> Bound(Strip(remain)), err |-> NoErr]

\* `value` is what the local variable holds when the branch assigns nothing
EndByTypeIn(typ, remain, idx, name, value) ==
    IF typ.tag = "int" THEN TailRun(remain, idx, name, value, DigitRun(remain, 0), TRUE)
    ELSE IF typ.tag = "float" THEN TailRun(remain, idx, name, value, FloatRun(remain), TRUE)
    ELSE IF typ.tag = "bool"
    THEN TailRun(remain, idx, name, value,
                 IF remain # <<>> /\ remain[1] \in BoolTokens THEN 1 ELSE 0, FALSE)
    ELSE IF IsList(typ) THEN TailRun(remain, idx, name, value, ListRun(remain), TRUE)
    ELSE IF IsBrace(typ)
    THEN IF StartsWith(remain, <<"{">>, 0)
         THEN TailRun(remain, idx, name, value, BalancedEnd(remain, "{", "}", 0, 0) + 1, FALSE)
         ELSE [st |-> "ok", idx |-> idx, value |-> value, err |-> NoErr]
    ELSE TailRun(remain, idx, name, value, 0, FALSE)

EndByType(typ, mo, idx, name, value) ==
    EndByTypeIn(typ, SliceFrom(mo, idx), idx, name, value)

\* the mutation of FieldStart that advances past the literal without
\* comparing it
FieldStartUnchecked(typ, mo, idx, seg_start) ==
    IF seg_start # <<>> THEN Min({idx + Len(seg_start), Len(mo)})
    ELSE Locate(typ, mo, idx)

\* the cursor after the literal before the field (lines 286-289), or where
\* the value starts when there is none (lines 290-321); -1: neither is there
FieldStart(typ, mo, idx, seg_start) ==
    IF seg_start # <<>>
    THEN IF StartsWith(mo, seg_start, idx) THEN idx + Len(seg_start) ELSE -1
    ELSE Locate(typ, mo, idx)

\* one iteration of the extraction loop (lines 283-423) for the field at
\* position i of fields: the cursor after it and the local `value`
ExtractFrom(name, typ, seg_start, seg_end, mo, idx, value, at) ==
    IF at = -1
    THEN [st |-> "ValueError", idx |-> idx, value |-> value,
          err |-> IF seg_start # <<>> THEN Err("MissingLiteral", "", seg_start)
                  ELSE Err("NoValue", name, <<>>)]
    ELSE IF seg_end # <<>> THEN EndByLiteral(typ, mo, at, seg_end, value)
    ELSE EndByType(typ, mo, at, name, value)

ExtractField(self, mo, i, idx, value) ==
    ExtractFrom(self.fields[i].k, self.fields[i].v, self.segments[i], self.segments[i + 1],
                mo, idx, value, FieldStart(self.fields[i].v, mo, idx, self.segments[i]))

\* the extraction loop from field i on: the raw texts captured, by name;
\* result[name] = value raises UnboundLocalError while `value` is unbound
RECURSIVE ExtractAll(_, _, _, _, _, _)
ExtractNext(self, mo, i, result, r) ==
    IF r.st # "ok" THEN [st |-> r.st, err |-> r.err, data |-> <<>>]
    ELSE IF ~r.value.set
    THEN [st |-> "UnboundLocalError", err |-> Err("UnboundLocalError", self.fields[i].k, <<>>),
          data |-> <<>>]
    ELSE ExtractAll(self, mo, i + 1, r.idx, r.value,
                    DictSet(result, self.fields[i].k, VStr(r.value.s)))
ExtractAll(self, mo, i, idx, value, result) ==
    IF i > Len(self.fields) THEN [st |-> "ok", err |-> NoErr, data |-> result]
    ELSE ExtractNext(self, mo, i, result, ExtractField(self, mo, i, idx, value))

\* eval(val) on the text of a list or dict literal: [ok, v]
Lower(c) ==
    CASE c \in {"True", "TRUE"} -> "true"
      [] c \in {"False", "FALSE"} -> "false"
      [] OTHER -> c

py_eval(val) ==
    IF Strip(val) = <<"True">> THEN [ok |-> TRUE, v |-> VBool(TRUE)]
    ELSE IF Strip(val) = <<"False">> THEN [ok |-> TRUE, v |-> VBool(FALSE)]
    ELSE json_loads(val)

\* a record field: the JSON must decode and satisfy the schema (lines 428-436)
ConvertModel(cls, j) ==
    IF j.ok /\ Conforms(j.v, cls) THEN [ok |-> TRUE, v |-> ModelDump(j.v, cls)]
    ELSE [ok |-> FALSE, v |-> VNull]

\* the decoded value, or the captured text when it does not decode
Decoded(val, d) == [ok |-> TRUE, v |-> IF d.ok THEN d.v ELSE val]

\* the conversion of one captured text by the field's type (lines 426-452):
\* [ok, v]; not ok is the ValueError of a record that fails its schema
Convert(typ, val) ==
    IF typ.tag = "model" THEN ConvertModel(typ.arg, json_loads(val.s))
    ELSE IF typ.tag = "bool"
    THEN IF Len(val.s) = 1 /\ Lower(val.s[1]) \in {"true", "1"} THEN [ok |-> TRUE, v |-> VBool(TRUE)]
         ELSE IF Len(val.s) = 1 /\ Lower(val.s[1]) \in {"false", "0"} THEN [ok |-> TRUE, v |-> VBool(FALSE)]
         ELSE [ok |-> TRUE, v |-> val]
    ELSE IF IsList(typ) \/ typ.tag = "dict" THEN Decoded(val, py_eval(val.s))
    ELSE IF typ.tag = "any" THEN Decoded(val, json_loads(val.s))
    ELSE [ok |-> TRUE, v |-> val]

\* the conversion loop from field i on
RECURSIVE ConvertAll(_, _, _)
ConvertNext(self, i, result, name, c) ==
    IF ~c.ok THEN [st |-> "ValueError", err |-> Err("Schema", name, <<>>), data |-> <<>>]
    ELSE ConvertAll(self, i + 1, DictSet(result, name, c.v))
ConvertAll(self, i, result) ==
    IF i > Len(self.fields) THEN [st |-> "ok", err |-> NoErr, data |-> result]
    ELSE ConvertNext(self, i, result, self.fields[i].k,
                     Convert(self.fields[i].v, DictGet(result, self.fields[i].k)))

\* strict_parse_llm_output(matched_output): [st, err, data]; st is "ok" or
\* the exception raised
ConvertExtracted(self, x) == IF x.st # "ok" THEN x ELSE ConvertAll(self, 1, x.data)
strict_parse_llm_output(self, matched_output) ==
    ConvertExtracted(self, ExtractAll(self, matched_output, 1, 0, Unbound, <<>>))


\* ------------------------------------------------- DynamicModel(**data)
\* constr(pattern=P): the patterns of the tests, searched in the value
RegexSearch(pattern, x) ==
    CASE pattern = "^.+@.+$" ->
           /\ \E i \in 2..(Len(x) - 1) : x[i] = "@"
           /\ \A i \in 1..Len(x) : x[i] # "\n"
      [] pattern = "^x+$" ->
           /\ x # <<>>
           /\ \A i \in 1..Len(x) : x[i] = "x"

\* the strings pydantic accepts as a bool, lower-cased
PydanticBoolTrue == {"1", "on", "t", "true", "y", "yes"}
PydanticBoolFalse == {"0", "off", "f", "false", "n", "no"}

VFloat(x) == [t |-> "float", n |-> 0, s |-> x, m |-> <<>>]

\* the validation of one field's value against its declared type: [ok, v]
ValidateField(typ, val) ==
    LET no == [ok |-> FALSE, v |-> VNull]
        yes(x) == [ok |-> TRUE, v |-> x]
    IN  IF typ.tag = "int"
        THEN IF val.t = "str" /\ AllDigits(val.s) THEN yes(VInt(ToInt(val.s))) ELSE no
        ELSE IF typ.tag = "float"
        THEN IF val.t = "str" /\ val.s # <<>> /\ FloatRun(val.s) = Len(val.s)
             THEN yes(VFloat(val.s)) ELSE no
        ELSE IF typ.tag = "str"
        THEN IF val.t = "str" THEN yes(val) ELSE no
        ELSE IF typ.tag = "regex"
        THEN IF val.t = "str" /\ RegexSearch(typ.arg, val.s) THEN yes(val) ELSE no
        ELSE IF typ.tag = "bool"
        THEN IF val.t = "bool" THEN yes(val)
             ELSE IF val.t = "str" /\ Len(val.s) = 1 /\ Lower(val.s[1]) \in PydanticBoolTrue
             THEN yes(VBool(TRUE))
             ELSE IF val.t = "str" /\ Len(val.s) = 1 /\ Lower(val.s[1]) \in PydanticBoolFalse
             THEN yes(VBool(FALSE))
             ELSE no
        ELSE IF typ.tag = "list[str]"
        THEN IF val.t = "list" /\ \A i \in 1..Len(val.m) : val.m[i].v.t = "str" THEN yes(val) ELSE no
        ELSE IF typ.tag = "list[int]"
        THEN IF val.t = "list" /\ \A i \in 1..Len(val.m) : val.m[i].v.t = "int" THEN yes(val) ELSE no
        ELSE IF typ.tag = "dict"
        THEN IF val.t = "obj" THEN yes(val) ELSE no
        ELSE yes(val)

\* DynamicModel(**data).model_dump(): [st, err, data]; st is "ok" or
\* "ValidationError", which names the first field that fails
DynamicModelOf(self, checked) ==
    IF \E i \in 1..Len(checked) : ~checked[i].ok
    THEN [st |-> "ValidationError",
          err |-> Err("ValidationError",
                      self.fields[Min({i \in 1..Len(checked) : ~checked[i].ok})].k, <<>>),
          data |-> <<>>]
    ELSE [st |-> "ok", err |-> NoErr,
          data |-> [i \in 1..Len(checked) |-> [k |-> self.fields[i].k, v |-> checked[i].v]]]
DynamicModel(self, data) ==
    DynamicModelOf(self, [i \in 1..Len(self.fields) |->
                            ValidateField(self.fields[i].v, DictGet(data, self.fields[i].k))])

\* ----------------------------------------------------------------- validate
None == [none |-> TRUE, s |-> <<>>]
Some(x) == [none |-> FALSE, s |-> x]

\* the result object {success, data, matched_output}; data is the mapping on
\* success and the error text (error) on failure
Result(success, data, error, matched_output) ==
    [success |-> success, data |-> data, error |-> error, matched_output |-> matched_output]
NoResult == Result(FALSE, <<>>, NoErr, None)

\* the body of a try block (lines 467-469, 499-500): [st, err, data]
AttemptParsed(self, p) == IF p.st # "ok" THEN p ELSE DynamicModel(self, p.data)
Attempt(self, candidate) == AttemptParsed(self, strict_parse_llm_output(self, candidate))

\* what the except clause of both try blocks catches (lines 475, 506)
Caught == {"ValidationError", "ValueError"}

\* a validate() call in progress: the local variables and where it stands
\* (pc "loop": at the head of the for loop, before match k; "done": returned
\* ret; "raised": left by the exception exc); tried is the start offsets of
\* the windows given to a try block so far, in order
Frame(pc, out, matches, k, last_err, last_candidate, ret, exc) ==
    [pc |-> pc, out |-> out, matches |-> matches, k |-> k, last_err |-> last_err,
     last_candidate |-> last_candidate, ret |-> ret, exc |-> exc, tried |-> <<>>]

\* the single parse of the whole output (lines 465-480)
ValidateWhole(out, a) ==
    IF a.st = "ok"
    THEN [Frame("done", out, <<>>, 1, NoErr, None, Result(TRUE, a.data, NoErr, Some(out)), "")
            EXCEPT !.tried = <<0>>]
    ELSE IF a.st \in Caught
    THEN [Frame("done", out, <<>>, 1, NoErr, None, Result(FALSE, <<>>, a.err, Some(out)), "")
            EXCEPT !.tried = <<0>>]
    ELSE [Frame("raised", out, <<>>, 1, NoErr, None, NoResult, a.st) EXCEPT !.tried = <<0>>]

\* the mutation of ValidateStripped that anchors the template at the start of
\* the output (re.match in place of re.finditer)
ValidateAnchored(self, out) ==
    IF self.segments[1] = <<>> THEN ValidateWhole(out, Attempt(self, out))
    ELSE Frame("loop", out, IF StartsWith(out, self.segments[1], 0) THEN <<0>> ELSE <<>>,
               1, NoErr, None, NoResult, "")

\* lines 458-483, on the output without its markup: with an empty leading
\* literal, one parse of the whole output; else the matches of the leading
\* literal
ValidateStripped(self, out) ==
    IF self.segments[1] = <<>> THEN ValidateWhole(out, Attempt(self, out))
    ELSE Frame("loop", out, FindIter(out, self.segments[1], 0), 1, NoErr, None, NoResult, "")

ValidateEnter(self, llm_output) == ValidateStripped(self, strip_think_tags(llm_output))

\* the window of the match at start_idx (lines 488-495), None when the
\* trailing literal does not occur at or after it
CandidateTo(out, start_idx, end_str, end_idx) ==
    IF end_idx = -1 THEN None ELSE Some(Slice(out, start_idx, end_idx + Len(end_str)))
Candidate(self, out, start_idx) ==
    IF self.segments[Len(self.segments)] = <<>> THEN Some(SliceFrom(out, start_idx))
    ELSE CandidateTo(out, start_idx, self.segments[Len(self.segments)],
                     RFind(out, self.segments[Len(self.segments)], start_idx))

\* the try block on a window (lines 497-509)
ValidateAttempt(f, candidate, a) ==
    IF a.st = "ok"
    THEN [f EXCEPT !.pc = "done", !.last_candidate = candidate,
                   !.tried = Append(f.tried, f.matches[f.k]),
                   !.ret = Result(TRUE, a.data, NoErr, candidate)]
    ELSE IF a.st \in Caught
    THEN [f EXCEPT !.k = f.k + 1, !.last_candidate = candidate,
                   !.tried = Append(f.tried, f.matches[f.k]), !.last_err = a.err]
    ELSE [f EXCEPT !.pc = "raised", !.last_candidate = candidate,
                   !.tried = Append(f.tried, f.matches[f.k]), !.exc = a.st]

\* one iteration of the for loop (lines 485-509)
ValidateWindow(self, f, candidate) ==
    IF candidate.none THEN [f EXCEPT !.k = f.k + 1]
    ELSE ValidateAttempt(f, candidate, Attempt(self, candidate.s))

\* one iteration of the for loop, or, when the matches are used up, the
\* return after it (lines 512-524)
ValidateStep(self, f) ==
    IF f.k > Len(f.matches)
    THEN IF f.last_err # NoErr
         THEN [f EXCEPT !.pc = "done", !.ret = Result(FALSE, <<>>, f.last_err, f.last_candidate)]
         ELSE [f EXCEPT !.pc = "done",
                        !.ret = Result(FALSE, <<>>, Err("AnchorNotFound", "", self.segments[1]), None)]
    ELSE ValidateWindow(self, f, Candidate(self, f.out, f.matches[f.k]))

\* a whole validate() call: the frame it ends in
RECURSIVE ValidateRun(_, _)
ValidateRun(self, f) ==
    IF f.pc # "loop" THEN f ELSE ValidateRun(self, ValidateStep(self, f))

validate(self, llm_output) == ValidateRun(self, ValidateEnter(self, llm_output))


\* ------------------------------------------------ get_format_instructions
\* datetime.date.today().isoformat() on day number `day` of a month
isoformat(day) == <<"YYYY-MM-", DigitChar((day + 1) \div 10), DigitChar((day + 1) % 10)>>

\* _schema_to_example(cls.model_json_schema(), cls) on the day `day`: an
\* object with an example for every property (lines 74-118), by its type
\* (lines 196-206), a $ref resolved (lines 55-58), an array of one example
\* item (lines 162-191); the example passes model_validate (lines 213-218)
RECURSIVE schema_to_example(_, _)
schema_to_example(cls, day) ==
    LET Inner(typ) ==
            IF typ \in ModelNames THEN schema_to_example(typ, day)
            ELSE IF ElemOf(typ) # ""
            THEN VList(<<[k |-> "", v |-> schema_to_example(ElemOf(typ), day)]>>)
            ELSE IF typ = "int" THEN VInt(42)
            ELSE IF typ = "date" THEN VStr(isoformat(day))
            ELSE VStr(<<"EXAMPLE">>)
    IN  VObj([i \in 1..Len(ModelFields(cls)) |->
                [k |-> ModelFields(cls)[i].name, v |-> Inner(ModelFields(cls)[i].typ)]])

\* the example value of a field: lines 537-594
ExampleValue(typ, day) ==
    CASE typ.tag = "model" -> json_dumps(schema_to_example(typ.arg, day))
      [] typ.tag = "list[str]" -> <<"[", "\"", "A", "\"", ",", " ", "\"", "B", "\"", "]">>
      [] typ.tag = "list[int]" -> <<"[", "1", ",", " ", "2", "]">>
      [] typ.tag = "dict" -> <<"{", "\"", "key", "\"", ":", " ", "\"", "value", "\"", "}">>
      [] typ.tag = "any" -> <<"{", "foo:", " ", "\"", "bar", "\"", ",", " ", "num:", " ", "1", "}">>
      [] typ.tag = "int" -> <<"4", "2">>
      [] typ.tag = "float" -> <<"3", ".", "1", "4">>
      [] typ.tag = "bool" -> <<"true">>
      [] OTHER -> <<"EXAMPLE">>

\* the example line: every placeholder of the template replaced by the
\* example value of the field of its name (line 595)
RECURSIVE ExampleFrom(_, _, _)
ExampleFrom(self, i, day) ==
    IF i > Len(self.template) THEN <<>>
    ELSE (IF self.template[i].k = "lit" THEN <<self.template[i].c>>
          ELSE ExampleValue(DictGet(self.fields, self.template[i].name), day))
         \o ExampleFrom(self, i + 1, day)

\* get_format_instructions() on the day `day`: the fixed heading is left
\* out; the text is the template, the example line and the schema of every
\* class of the model_map
get_format_instructions(self, day) ==
    [template |-> self.template, example |-> ExampleFrom(self, 1, day), schemas |-> self.model_map]

\* ------------------------------------------------ parsers and input texts
\* the templates of the tests, with one lexeme for each literal:
\*   "编号={age:int}。"  "姓名={name:str}，年龄={age:int}。"  "内容={data:any}"
\*   "嵌套={n:json:Level1}。"  "邮箱={email:str:regex=^.+@.+$}。"
\*   "配置={c:any}，备注={s:str}。"  "{model:json:Level2}"  "模型={model:json:Level2}"
TplInt == <<Lit("N"), PH("age", "int", "", ""), Lit(".")>>
TplStrInt == <<Lit("N"), PH("name", "str", "", ""), Lit("A"), PH("age", "int", "", ""), Lit(".")>>
TplAny == <<Lit("D"), PH("data", "any", "", "")>>
TplRec == <<Lit("J"), PH("n", "json", "", "Level1"), Lit(".")>>
TplRegex == <<Lit("E"), PH("email", "str", "^.+@.+$", ""), Lit(".")>>
TplAnyStr == <<Lit("C"), PH("c", "any", "", ""), Lit("A"), PH("s", "str", "", ""), Lit(".")>>
TplModel == <<PH("model", "json", "", "Level2")>>
TplModelEnd == <<Lit("M"), PH("model", "json", "", "Level2")>>
TplEvent == <<Lit("V"), PH("e", "json", "", "Event"), Lit(".")>>

\* the templates of the permissive types:
\*   "激活={active:bool}。"  "数字列表={nums:list[int]}。"  "配置={config:dict}。"
TplBool == <<Lit("B"), PH("active", "bool", "", ""), Lit(".")>>
TplList == <<Lit("T"), PH("nums", "list[int]", "", ""), Lit(".")>>
TplDict == <<Lit("G"), PH("config", "dict", "", ""), Lit(".")>>
TypedTemplates == {TplBool, TplList, TplDict}

\* templates with a leading literal that overlaps itself, a list as the last
\* field, an any field after a str field, and a str field for texts with
\* reasoning markup
TplTwin == <<Lit("N"), Lit("N"), PH("age", "int", "", ""), Lit(".")>>
TplListEnd == <<Lit("T"), PH("nums", "list[int]", "", "")>>
TplStrAny == <<Lit("C"), PH("s", "str", "", ""), Lit("A"), PH("c", "any", "", "")>>
TplNote == <<Lit("N"), PH("s", "str", "", ""), Lit(".")>>
ExtractTemplates == {TplTwin, TplListEnd, TplStrAny, TplNote}

Templates == {TplInt, TplStrInt, TplAny, TplRec, TplRegex, TplAnyStr, TplModel, TplModelEnd}

\* the model_map each parser is constructed with
ModelMapOf(template) ==
    IF template = TplRec THEN {"Level1", "Level2"}
    ELSE IF template \in {TplModel, TplModelEnd} THEN {"Level2"}
    ELSE IF template = TplEvent THEN {"Event"}
    ELSE {}

\* the lexemes the texts given to a parser are drawn from
Alphabet(template) ==
    CASE template = TplInt -> {"N", ".", "1", "0", "x"}
      [] template = TplStrInt -> {"N", "A", ".", "x", "1"}
      [] template = TplAny -> {"D", "{", "}", "x", "1"}
      [] template = TplRec -> {"{", "}", "value:", "1", "'x'"}
      [] template = TplRegex -> {"E", ".", "@", "x", " "}
      [] template = TplAnyStr -> {"C", "{", "}", "A", ".", "x"}
      [] template = TplModel -> {"{", "}", "value:", "1", "'x'"}
      [] template = TplModelEnd -> {"M", "{", "}", "value:", "1"}
      [] template = TplBool -> {"B", ".", "TRUE", "0", "yes", "x"}
      [] template = TplList -> {"T", ".", "[", "]", "1", "x"}
      [] template = TplDict -> {"G", ".", "{", "}", "value:", "1"}
      [] template = TplTwin -> {"N", "1", "."}
      [] template = TplListEnd -> {"T", "[", "]", "1", ","}
      [] template = TplStrAny -> {"C", "A", "x", "1", "{", "}"}
      [] template = TplNote -> {"<", "/", "think", ">", "x", " ", "\n"}
      [] OTHER -> {"N", "1", "x"}

\* the fixed text around the enumerated part: none, or for the record
\* template the anchor and the outer object, so that the enumerated part is
\* the nested object, or for the regex template the end of a matching value
Frames(template) ==
    IF template = TplRec
    THEN {[pre |-> <<"J">>, post |-> <<".">>],
          [pre |-> <<"J", "{", "l2:">>, post |-> <<"}", ".">>]}
    ELSE IF template = TplRegex
    THEN {[pre |-> <<>>, post |-> <<>>], [pre |-> <<>>, post |-> <<"@", "x", ".">>]}
    ELSE IF template = TplNote
    THEN {[pre |-> <<"N">>, post |-> <<".">>],
          [pre |-> <<"N", "<">>, post |-> <<"think", ">", ".">>]}
    ELSE {[pre |-> <<>>, post |-> <<>>]}

Strings(alphabet, n) == UNION {[1..k -> alphabet] : k \in 0..n}

Texts(template) ==
    {f.pre \o x \o f.post : f \in Frames(template), x \in Strings(Alphabet(template), MaxLen)}

\* the outputs the completion provider returns to a call with the parser: an
\* enumerated head and a fixed tail that completes a valid output
ReplyFrame(template) ==
    CASE template = TplInt -> [pre |-> <<>>, post |-> <<"1", ".">>]
      [] template = TplStrInt -> [pre |-> <<>>, post |-> <<"A", "1", ".">>]
      [] template = TplAny -> [pre |-> <<>>, post |-> <<"{", "}">>]
      [] template = TplRec -> [pre |-> <<"J", "{", "l2:", "{", "value:">>,
                               post |-> <<"}", "}", ".">>]
      [] template = TplRegex -> [pre |-> <<>>, post |-> <<"x", "@", "x", ".">>]
      [] template = TplAnyStr -> [pre |-> <<>>, post |-> <<"A", ".">>]
      [] template = TplModel -> [pre |-> <<>>, post |-> <<"value:", "1", "}">>]
      [] template = TplModelEnd -> [pre |-> <<>>, post |-> <<"{", "value:", "1", "}">>]

Replies(template) ==
    {ReplyFrame(template).pre \o x \o ReplyFrame(template).post :
        x \in Strings(Alphabet(template), MaxReply)}

\* ------------------------------------------------------------ state machine
VARIABLES
    parser,       \* the TemplateParser: template, model_map, fields, segments
    llm_output,   \* the text given to the latest validate() call
    frame,        \* the latest validate() call: its locals and where it stands
    call,         \* the LLM.call() in progress
    table,        \* the TableParser, once constructed
    threads,      \* the validate() calls that run concurrently on parser
    today,        \* the current date, as a day number
    instructions, \* the results of the get_format_instructions() calls so far
    agent         \* the Agent and its chat() or chat_async() call

vars == <<parser, llm_output, frame, call, table, threads, today, instructions, agent>>
others == <<table, threads, today, instructions, agent>>

Idle == Frame("idle", <<>>, <<>>, 1, NoErr, None, NoResult, "")

\* an LLM.call(): pc "idle" before it, "while" at the head of the retry loop,
\* "returned" or "raised" after it; invocations counts the _invoke_llm calls;
\* tool is TRUE when the call returned the tool caller's result
Call(pc, max_retry, retry_count, invocations, last_content, tool, history) ==
    [pc |-> pc, max_retry |-> max_retry, retry_count |-> retry_count,
     invocations |-> invocations, last_content |-> last_content, tool |-> tool,
     history |-> history]
NoCall == Call("idle", 0, 0, 0, <<>>, FALSE, <<>>)

\* an Agent and its chat call: pc "idle" before the call, "while" at the head
\* of the loop, "returned" after the return, "raised" when the call is left by
\* an exception; tool_calls holds the iteration of every recorded tool call,
\* callers whether a tool caller went into the model call of each round
NoAgent ==
    [pc |-> "idle", asynchronous |-> FALSE, use_mcp |-> FALSE, tools |-> FALSE,
     max_iterations |-> 0, max_consecutive_tools |-> 0, iteration |-> 0,
     consecutive_tool_calls |-> 0, tool_calls |-> <<>>, callers |-> <<>>,
     prompt |-> "", success |-> TRUE, error |-> ""]

Parsers == {TemplateParser(t, ModelMapOf(t)) : t \in Templates}

\* no TableParser yet
NoTable ==
    [built |-> FALSE, table_model |-> "", value_only |-> FALSE, skip_on_type_error |-> TRUE,
     table_field |-> "None", row_model |-> "None", parser |-> TemplateParser(<<>>, {})]

\* the threads that call validate() on the one parser, none of them in a call
Threads == 1..MaxThreads
NoThreads == [t \in Threads |-> [text |-> <<>>, frame |-> Idle]]

Init ==
    /\ parser \in Parsers
    /\ llm_output = <<>>
    /\ frame = Idle
    /\ call = NoCall
    /\ table = NoTable
    /\ threads = NoThreads
    /\ today = 0
    /\ instructions = <<>>
    /\ agent = NoAgent

\* parser.validate(text) is called on some text: lines 456-483 (and, with an
\* empty leading literal, the single parse of lines 465-480)
Validate ==
    /\ frame.pc = "idle"
    /\ \E text \in Texts(parser.template) :
         /\ llm_output' = text
         /\ frame' = ValidateEnter(parser, text)
    /\ UNCHANGED <<parser, call, others>>

\* one iteration of the loop over the matches: lines 485-509
ValidateTry ==
    /\ frame.pc = "loop"
    /\ frame.k <= Len(frame.matches)
    /\ frame' = ValidateStep(parser, frame)
    /\ UNCHANGED <<parser, llm_output, call, others>>

\* the return after the loop: lines 512-524
ValidateReturn ==
    /\ frame.pc = "loop"
    /\ frame.k > Len(frame.matches)
    /\ frame' = ValidateStep(parser, frame)
    /\ UNCHANGED <<parser, llm_output, call, others>>

Next ==
    \/ Validate
    \/ ValidateTry
    \/ ValidateReturn

Spec == Init /\ [][Next]_vars

\* the same calls on the parsers of the permissive types
InitTyped ==
    /\ parser \in {TemplateParser(t, {}) : t \in TypedTemplates}
    /\ llm_output = <<>>
    /\ frame = Idle
    /\ call = NoCall
    /\ table = NoTable
    /\ threads = NoThreads
    /\ today = 0
    /\ instructions = <<>>
    /\ agent = NoAgent

SpecTyped == InitTyped /\ [][Next]_vars

\* the same calls on the parsers of the extraction templates
InitExtract ==
    /\ parser \in {TemplateParser(t, {}) : t \in ExtractTemplates}
    /\ llm_output = <<>>
    /\ frame = Idle
    /\ call = NoCall
    /\ table = NoTable
    /\ threads = NoThreads
    /\ today = 0
    /\ instructions = <<>>
    /\ agent = NoAgent

SpecExtract == InitExtract /\ [][Next]_vars

\* ---------------------------------------------------------------- LLM.call
\* where the call stands once parser.validate(content) has ended in frame f
AfterValidate(f) == IF f.pc = "raised" THEN "raised" ELSE "while"

\* LLM.call(prompt, parser=parser, caller=..., max_retry=...) up to the head
\* of the retry loop: the first completion, the history entry, the tool caller
\* (tool_result is TRUE when a caller is given and returns a result) and the
\* first validate (llm.py lines 225-229 and 172-188)
LLMCall ==
    /\ call.pc = "idle"
    /\ \E max_retry \in 0..MaxRetry, content \in Replies(parser.template), tool_result \in BOOLEAN :
         IF tool_result
         THEN /\ call' = Call("returned", max_retry, 0, 1, <<>>, TRUE, <<content>>)
              /\ UNCHANGED <<llm_output, frame>>
         ELSE /\ llm_output' = content
              /\ frame' = validate(parser, content)
              /\ call' = Call(AfterValidate(frame'), max_retry, 0, 1, content, FALSE, <<content>>)
    /\ UNCHANGED <<parser, others>>

\* one iteration of the retry loop (llm.py lines 188-192)
LLMRetry ==
    /\ call.pc = "while"
    /\ ~frame.ret.success
    /\ call.retry_count < call.max_retry
    /\ \E content \in Replies(parser.template) :
         /\ llm_output' = content
         /\ frame' = validate(parser, content)
         /\ call' = [call EXCEPT !.pc = AfterValidate(frame'),
                                 !.retry_count = call.retry_count + 1,
                                 !.invocations = call.invocations + 1,
                                 !.last_content = content]
    /\ UNCHANGED <<parser, others>>

\* the loop ends and the call returns parsed (llm.py lines 188, 193)
LLMReturn ==
    /\ call.pc = "while"
    /\ ~(~frame.ret.success /\ call.retry_count < call.max_retry)
    /\ call' = [call EXCEPT !.pc = "returned"]
    /\ UNCHANGED <<parser, llm_output, frame, others>>

NextLLM ==
    \/ LLMCall
    \/ LLMRetry
    \/ LLMReturn

SpecLLM == Init /\ [][NextLLM]_vars

\* ------------------------------------------------------------ construction
\* the longest template given to the constructor, in elements
MaxTpl == 3

\* the schema registry (model_map) the constructor is given
Registry == {"Level2"}

\* the elements the templates are made of: a literal, two placeholders of one
\* name, a placeholder of a registered schema and one of a schema that is not
\* registered
Elements ==
    {Lit("N"), PH("a", "int", "", ""), PH("a", "str", "", ""),
     PH("m", "json", "", "Level2"), PH("m", "json", "", "Missing")}

AnyTemplates == UNION {[1..n -> Elements] : n \in 0..MaxTpl}

\* TemplateParser(template, model_map=Registry): lines 227-231; nothing in
\* __init__ or parse_template raises for these templates
Construct ==
    /\ frame.pc = "idle"
    /\ call.pc = "idle"
    /\ \E template \in AnyTemplates : parser' = TemplateParser(template, Registry)
    /\ UNCHANGED <<llm_output, frame, call, others>>

NextCompile ==
    \/ Construct
    \/ Validate
    \/ ValidateTry
    \/ ValidateReturn

SpecCompile == Init /\ [][NextCompile]_vars

\* -------------------------------------------------------------- TableParser
\* the length of the enumerated part of a text given to TableParser.validate
MaxTable == 3

\* the classes given to the constructor as table_model
TableModels == {"TableModel", "PairModel", "RowModel"}

\* TableParser(table_model, value_only, skip_on_type_error): the loop over the
\* fields keeps the last field that is a list of records (lines 27-36), none
\* when there is no such field; nothing in it raises
TableParser(table_model, value_only, skip_on_type_error) ==
    LET fields == ModelFields(table_model)
        lists == {i \in 1..Len(fields) : ElemOf(fields[i].typ) \in ModelNames}
        last == IF lists = {} THEN 0 ELSE Max(lists)
        model_map == {table_model}
                       \cup {ElemOf(fields[i].typ) : i \in lists}
                       \cup {fields[i].typ : i \in {j \in 1..Len(fields) : fields[j].typ \in ModelNames}}
    IN  [built |-> TRUE, table_model |-> table_model, value_only |-> value_only,
         skip_on_type_error |-> skip_on_type_error,
         table_field |-> IF last = 0 THEN "None" ELSE fields[last].name,
         row_model |-> IF last = 0 THEN "None" ELSE ElemOf(fields[last].typ),
         parser |-> TemplateParser(<<PH("table", "json", "", table_model)>>, model_map)]

\* str.strip(chars)
StripChars(s, chars) ==
    IF \A i \in 1..Len(s) : s[i] \in chars THEN <<>>
    ELSE SubSeq(s, Min({i \in 1..Len(s) : s[i] \notin chars}),
                   Max({i \in 1..Len(s) : s[i] \notin chars}))

\* re.findall(r'"[^"]*"|\'[^\']*\'|[^,]+', m), from offset i: a quoted run, or
\* else a run without a comma
RECURSIVE FindItems(_, _)
FindItems(m, i) ==
    IF i >= Len(m) THEN <<>>
    ELSE LET close == IF m[i + 1] \in {"\"", "'"} THEN Find(m, <<m[i + 1]>>, i + 1) ELSE -1
             comma == Find(m, <<",">>, i)
             run == IF comma = -1 THEN Len(m) ELSE comma
         IN  IF close # -1 THEN <<Slice(m, i, close + 1)>> \o FindItems(m, close + 1)
             ELSE IF m[i + 1] = "," THEN FindItems(m, i + 1)
             ELSE <<Slice(m, i, run)>> \o FindItems(m, run)

\* re.findall(r"\{([^{}]+)\}", text), from offset `from`: the non-empty
\* brace-free texts between an opening and a closing brace, in order
RECURSIVE RowMatches(_, _)
RowMatches(text, from) ==
    LET opens == {a \in from..(Len(text) - 1) :
                    /\ text[a + 1] = "{"
                    /\ \E b \in (a + 2)..(Len(text) - 1) :
                         /\ text[b + 1] = "}"
                         /\ \A x \in (a + 1)..(b - 1) : text[x + 1] \notin {"{", "}"}}
        a == Min(opens)
        b == Find(text, <<"}">>, a + 1)
    IN  IF opens = {} THEN <<>> ELSE <<Slice(text, a + 1, b)>> \o RowMatches(text, b + 1)

\* the items of one match (lines 85-88): split, stripped of blanks and
\* quotes, and without a last empty item that is one too many
RowItems(headers, m) ==
    LET found == FindItems(m, 0)
        items == [i \in 1..Len(found) |->
                    StripChars(StripChars(StripChars(found[i], WS), {"\""}), {"'"})]
    IN  IF Len(items) > Len(headers) /\ items[Len(items)] = <<>>
        THEN SubSeq(items, 1, Len(items) - 1) ELSE items

\* _parse_value_only(text): [st, rows]; st is "ok" or the exception that
\* int(v) raises when skip_on_type_error is off
parse_value_only(self, text) ==
    LET headers == ModelFields(self.row_model)
        matches == RowMatches(text, 0)
        Bad(items) == \E i \in 1..Len(headers) : headers[i].typ = "int" /\ ~AllDigits(items[i])
        Row(items) ==
            VObj([i \in 1..Len(headers) |->
                    [k |-> headers[i].name,
                     v |-> IF headers[i].typ = "int" THEN VInt(ToInt(items[i])) ELSE VStr(items[i])]])
        RECURSIVE Rows(_, _)
        Rows(i, rows) ==
            IF i > Len(matches) THEN [st |-> "ok", rows |-> rows]
            ELSE LET items == RowItems(headers, matches[i])
                 IN  IF Len(items) # Len(headers) THEN Rows(i + 1, rows)
                     ELSE IF ~Bad(items) THEN Rows(i + 1, Append(rows, [k |-> "", v |-> Row(items)]))
                     ELSE IF self.skip_on_type_error THEN Rows(i + 1, rows)
                     ELSE [st |-> "ValueError", rows |-> <<>>]
    IN  Rows(1, <<>>)

\* a call that an exception leaves before parser.validate is reached
Raised(out, exc) == Frame("raised", out, <<>>, 1, NoErr, None, NoResult, exc)

\* TableParser.validate(text) (lines 39-46): the frame in which the
\* validate() call of the inner parser ends; with value_only and no row_model,
\* row_model.model_fields raises AttributeError (line 81)
TableParser_validate(self, text) ==
    LET out == strip_think_tags(text)
        r == parse_value_only(self, out)
    IN  IF ~self.value_only THEN validate(self.parser, out)
        ELSE IF self.row_model = "None" THEN Raised(out, "AttributeError")
        ELSE IF r.st # "ok" THEN Raised(out, r.st)
        ELSE validate(self.parser,
                      json_dumps(VObj(<<[k |-> self.table_field, v |-> VList(r.rows)]>>)))

\* the texts given to TableParser.validate: free text, text after a
\* well-formed row, text inside a row that a well-formed row follows, and
\* text before a quoted item that holds a comma
TableTexts ==
    {f.pre \o x \o f.post :
        f \in {[pre |-> <<>>, post |-> <<>>],
               [pre |-> <<"{", "\"", "x", "\"", ",", "1", "}">>, post |-> <<>>],
               [pre |-> <<"{", "x", ",">>, post |-> <<"}", "{", "x", ",", "2", "}">>],
               [pre |-> <<"{">>, post |-> <<"\"", "x", ",", "x", "\"", ",", "1", "}">>]},
        x \in Strings({"{", "}", ",", "\"", "x", "1", " "}, MaxTable)}

TableConstruct ==
    /\ ~table.built
    /\ \E table_model \in TableModels, value_only \in BOOLEAN, skip_on_type_error \in BOOLEAN :
         table' = TableParser(table_model, value_only, skip_on_type_error)
    /\ UNCHANGED <<parser, llm_output, frame, call, threads, today, instructions, agent>>

TableValidate ==
    /\ table.built
    /\ frame.pc = "idle"
    /\ \E text \in TableTexts :
         /\ llm_output' = text
         /\ frame' = TableParser_validate(table, text)
    /\ UNCHANGED <<parser, call, others>>

NextTable ==
    \/ TableConstruct
    \/ TableValidate

SpecTable == Init /\ [][NextTable]_vars

\* ------------------------------------------ get_format_instructions calls
\* the parsers whose instructions are asked for
InstrTemplates == {TplInt, TplModel, TplRec, TplEvent}

InitInstr ==
    /\ parser \in {TemplateParser(t, ModelMapOf(t)) : t \in InstrTemplates}
    /\ llm_output = <<>>
    /\ frame = Idle
    /\ call = NoCall
    /\ table = NoTable
    /\ threads = NoThreads
    /\ today = 0
    /\ instructions = <<>>
    /\ agent = NoAgent

\* midnight passes
Tick ==
    /\ today < MaxDay
    /\ today' = today + 1
    /\ UNCHANGED <<parser, llm_output, frame, call, table, threads, instructions, agent>>

\* parser.get_format_instructions() is called and its result recorded
GetFormatInstructions ==
    /\ Len(instructions) < MaxCalls
    /\ instructions' = Append(instructions,
                              [parser |-> parser, text |-> get_format_instructions(parser, today)])
    /\ UNCHANGED <<parser, llm_output, frame, call, table, threads, today, agent>>

\* a parser is built again from a template and its registry
Rebuild ==
    /\ \E t \in InstrTemplates : parser' = TemplateParser(t, ModelMapOf(t))
    /\ UNCHANGED <<llm_output, frame, call, others>>

NextInstr ==
    \/ Tick
    \/ GetFormatInstructions
    \/ Rebuild

SpecInstr == InitInstr /\ [][NextInstr]_vars

\* ------------------------------------------------------- concurrent calls
\* the mutation of Local that keeps last_err and last_candidate on the
\* parser, where the calls of all threads share them
LocalShared(ts, t) ==
    [ts[t].frame EXCEPT !.last_err = ts[1].frame.last_err,
                        !.last_candidate = ts[1].frame.last_candidate]

\* the local variables of the validate() call of thread t: each call has its
\* own (lines 456-524 assign no attribute of self and no global)
Local(ts, t) == ts[t].frame

\* thread t calls parser.validate(text)
ThreadCall(t) ==
    /\ threads[t].frame.pc = "idle"
    /\ \E text \in Replies(parser.template) :
         threads' = [threads EXCEPT ![t] = [text |-> text, frame |-> ValidateEnter(parser, text)]]
    /\ UNCHANGED <<parser, llm_output, frame, call, table, today, instructions, agent>>

\* thread t runs one iteration of its loop, or its return
ThreadStep(t) ==
    /\ threads[t].frame.pc = "loop"
    /\ threads' = [threads EXCEPT ![t].frame = ValidateStep(parser, Local(threads, t))]
    /\ UNCHANGED <<parser, llm_output, frame, call, table, today, instructions, agent>>

NextThreads ==
    \/ \E t \in Threads : ThreadCall(t)
    \/ \E t \in Threads : ThreadStep(t)
    \/ GetFormatInstructions

SpecThreads == Init /\ [][NextThreads]_vars

\* -------------------------------------------------------------- Agent.chat
\* the mutation of AllowTools that allows tools on every round
AllowToolsAlways(iteration, max_iterations) == TRUE

\* allow_tools_this_round (agent.py lines 149-152, 298-301)
AllowTools(iteration, max_iterations) == ~(iteration >= max_iterations)

\* Agent(max_iterations=.., max_consecutive_tools=..) with or without
\* registered tools, and the start of chat(prompt) or chat_async(prompt), up
\* to the head of the loop; chat with use_mcp raises at once (lines 255-256),
\* and with max_iterations = 0 the loop is not entered and the call returns
AgentChat ==
    /\ agent.pc = "idle"
    /\ \E asynchronous \in BOOLEAN, use_mcp \in BOOLEAN, tools \in BOOLEAN,
          max_iterations \in 0..MaxIter, max_consecutive_tools \in {-1} \cup (0..MaxIter) :
         agent' = [agent EXCEPT
                     !.pc = IF use_mcp /\ ~asynchronous THEN "raised"
                            ELSE IF 0 < max_iterations THEN "while" ELSE "returned",
                     !.asynchronous = asynchronous, !.use_mcp = use_mcp, !.tools = tools,
                     !.max_iterations = max_iterations,
                     !.max_consecutive_tools =
                         IF max_consecutive_tools = -1 THEN max_iterations - 1
                         ELSE max_consecutive_tools]
    /\ UNCHANGED <<parser, llm_output, frame, call, table, threads, today, instructions>>

\* one iteration of the loop (lines 107-213, 275-363) with the response of
\* the model call: a tool call (only when a caller went in), a final answer,
\* or an exception, which the except clause turns into a result
AgentRound ==
    /\ agent.pc = "while"
    /\ agent.iteration < agent.max_iterations
    /\ LET iteration == agent.iteration + 1
           prompt == IF iteration = 1 THEN "original"
                     ELSE IF agent.consecutive_tool_calls >= agent.max_consecutive_tools
                     THEN "final answer"
                     ELSE IF agent.tool_calls # <<>> THEN "tool context" ELSE "original"
           caller == /\ AllowTools(iteration, agent.max_iterations)
                     /\ agent.use_mcp \/ agent.tools
           entered == [agent EXCEPT !.iteration = iteration, !.prompt = prompt,
                                    !.callers = Append(agent.callers, caller)]
       IN  \E response \in (IF caller THEN {"tool"} ELSE {}) \cup {"final", "raise"} :
             agent' =
                 IF response = "raise"
                 THEN [entered EXCEPT !.pc = "returned", !.success = FALSE, !.error = "exception"]
                 ELSE IF response = "final"
                 THEN [entered EXCEPT !.pc = "returned", !.consecutive_tool_calls = 0]
                 ELSE IF iteration >= agent.max_iterations
                 THEN [entered EXCEPT !.pc = "returned", !.success = FALSE,
                                      !.error = "max iterations",
                                      !.tool_calls = Append(agent.tool_calls, iteration),
                                      !.consecutive_tool_calls = agent.consecutive_tool_calls + 1]
                 ELSE [entered EXCEPT !.tool_calls = Append(agent.tool_calls, iteration),
                                      !.consecutive_tool_calls = agent.consecutive_tool_calls + 1]
    /\ UNCHANGED <<parser, llm_output, frame, call, table, threads, today, instructions>>

NextAgent ==
    \/ AgentChat
    \/ AgentRound

SpecAgent == Init /\ [][NextAgent]_vars

\* ================================================================== claims
Ended == frame.pc \in {"done", "raised"}
Succeeded(f) == f.pc = "done" /\ f.ret.success

\* the window of match k of frame f, and whether its try block succeeds
WindowOf(self, f, k) == Candidate(self, f.out, f.matches[k])
CandidateOk(self, c) == ~c.none /\ Attempt(self, c.s).st = "ok"
\* the first match whose window succeeds, and the last match that has a
\* window; 0 when there is none
FirstOk(self, f) == MinOr({k \in 1..Len(f.matches) : CandidateOk(self, WindowOf(self, f, k))}, 0)
LastWindow(self, f) == MaxOr({k \in 1..Len(f.matches) : ~WindowOf(self, f, k).none}, 0)
Increasing(s) == \A i \in 1..(Len(s) - 1) : s[i] < s[i + 1]

\* C1: validate returns a result object for every text and every parser; no
\* failure of extraction, coercion or schema validation leaves it as an
\* exception.
C1_ValidateNeverRaises == frame.pc # "raised"

\* the call returned the result of window c of match k, the last one tried
ReturnsWindow(self, f, k, c) ==
    /\ Succeeded(f)
    /\ f.ret.matched_output = c
    /\ f.ret.data = Attempt(self, c.s).data
    /\ f.tried[Len(f.tried)] = f.matches[k]

\* C2: with a non-empty leading literal the windows are tried in increasing
\* order of their start, and the call returns the result of the first window
\* whose extraction and validation succeed, trying none after it.
C2_FirstSuccessWins ==
    (parser.segments[1] # <<>> /\ frame.pc # "idle") =>
        /\ Increasing(frame.tried)
        /\ (Ended /\ FirstOk(parser, frame) # 0) =>
              ReturnsWindow(parser, frame, FirstOk(parser, frame),
                            WindowOf(parser, frame, FirstOk(parser, frame)))

\* the call returned the failure of window k, or of no window when k = 0
ReturnsLastError(self, f, k) ==
    /\ f.pc = "done"
    /\ ~f.ret.success
    /\ IF k = 0
       THEN f.ret.error.kind = "AnchorNotFound" /\ f.ret.matched_output = None
       ELSE /\ f.ret.matched_output = WindowOf(self, f, k)
            /\ f.ret.error = Attempt(self, WindowOf(self, f, k).s).err

\* C3: when every window fails the call returns success = false with the
\* error and the window of the last one attempted; when there is no window
\* at all it returns success = false, the anchor-not-found text and no
\* matched_output.
C3_LastErrorReported ==
    (parser.segments[1] # <<>> /\ Ended /\ FirstOk(parser, frame) = 0) =>
        ReturnsLastError(parser, frame, LastWindow(parser, frame))

\* the offsets where a literal occurs in a text
Occurrences(s, lit) == {p \in 0..(Len(s) - Len(lit)) : StartsWith(s, lit, p)}
Shifted(S, by) == {p + by : p \in S}

\* f is the call on the whole text, r the call on the core T of it
SameValues(f, r) == Succeeded(r) => (Succeeded(f) /\ f.ret.data = r.ret.data)

\* the leading and the trailing literal of the template are non-empty
Anchored(self) == self.segments[1] # <<>> /\ self.segments[Len(self.segments)] # <<>>

\* text[i:j] is surrounded by text that adds no occurrence of the leading or
\* of the trailing literal, and is not changed by the preprocessing
Extraneous(self, text, i, j) ==
    /\ Occurrences(text, self.segments[1]) =
         Shifted(Occurrences(Slice(text, i, j), self.segments[1]), i)
    /\ Occurrences(text, self.segments[Len(self.segments)]) =
         Shifted(Occurrences(Slice(text, i, j), self.segments[Len(self.segments)]), i)
    /\ strip_think_tags(Slice(text, i, j)) = Slice(text, i, j)

\* C4, as stated: for every text T on which validate succeeds and every
\* prefix P and suffix S, validate(P + T + S) succeeds with the same values.
C4_AnchorRobustAnyContext ==
    Ended => \A i \in 0..Len(llm_output) : \A j \in i..Len(llm_output) :
                 SameValues(frame, validate(parser, Slice(llm_output, i, j)))

\* C4, amended: the same for a template whose leading and trailing literals
\* are non-empty, when P and S add no occurrence of either literal and the
\* preprocessing changes neither T nor P + T + S.
C4_AnchorRobustness ==
    (Ended /\ Anchored(parser) /\ frame.out = llm_output) =>
        \A i \in 0..Len(llm_output) : \A j \in i..Len(llm_output) :
            Extraneous(parser, llm_output, i, j) =>
                SameValues(frame, validate(parser, Slice(llm_output, i, j)))

\* a text with a non-empty prefix and suffix around a core that validates
C4_Witness ==
    /\ Succeeded(frame)
    /\ Anchored(parser)
    /\ frame.out = llm_output
    /\ \E i \in 1..Len(llm_output) : \E j \in i..(Len(llm_output) - 1) :
         /\ Extraneous(parser, llm_output, i, j)
         /\ Succeeded(validate(parser, Slice(llm_output, i, j)))

\* the non-empty literals of segments, from position i on, occur in s in this
\* order, without overlap, from offset `from` on
RECURSIVE InOrder(_, _, _, _)
InOrderAt(segments, s, i, at) ==
    at # -1 /\ InOrder(segments, s, i + 1, at + Len(segments[i]))
InOrder(segments, s, i, from) ==
    IF i > Len(segments) THEN TRUE
    ELSE IF segments[i] = <<>> THEN InOrder(segments, s, i + 1, from)
    ELSE InOrderAt(segments, s, i, Find(s, segments[i], from))

QuotedLexeme(s) == CASE s = <<"x">> -> "'x'" [] s = <<"y">> -> "'y'"
RECURSIVE RenderJson(_)
RECURSIVE RenderMembers(_, _)
RenderMembers(m, i) ==
    IF i > Len(m) THEN <<>>
    ELSE (IF i > 1 THEN <<",">> ELSE <<>>) \o <<KeyLexeme(m[i].k)>> \o RenderJson(m[i].v)
         \o RenderMembers(m, i + 1)
RenderJson(v) ==
    IF v.t = "int" THEN IntText(v.n)
    ELSE IF v.t = "str" THEN <<QuotedLexeme(v.s)>>
    ELSE <<"{">> \o RenderMembers(v.m, 1) \o <<"}">>
RenderValue(v) == IF v.t = "str" THEN v.s ELSE RenderJson(v)

\* the template with each placeholder replaced by the text of its value
RECURSIVE Render(_, _, _)
Render(self, vals, i) ==
    IF i > Len(self.fields) THEN self.segments[i]
    ELSE self.segments[i] \o RenderValue(vals[i]) \o Render(self, vals, i + 1)

\* a value conforms to the type of a field
HasType(typ, v) ==
    IF typ.tag = "int" THEN v.t = "int"
    ELSE IF typ.tag = "str" THEN v.t = "str"
    ELSE IF typ.tag = "regex" THEN v.t = "str" /\ RegexSearch(typ.arg, v.s)
    ELSE IF typ.tag = "model" THEN Conforms(v, typ.arg) /\ ModelDump(v, typ.arg) = v
    ELSE v.t \in {"int", "str", "obj"}

\* the values of a field's type whose text form is vt
Readings(vt, j) ==
    {VStr(vt)} \cup (IF AllDigits(vt) THEN {VInt(ToInt(vt))} ELSE {})
               \cup (IF j.ok /\ j.v.t = "obj" THEN {j.v} ELSE {})
ValuesOf(typ, vt) ==
    {v \in Readings(vt, json_loads(vt)) : HasType(typ, v) /\ RenderValue(v) = vt}

\* the tuples of values, for the fields from position i on, that the text
\* from offset idx on is the rendering of
RECURSIVE Originals(_, _, _, _)
Originals(self, text, i, idx) ==
    IF i > Len(self.fields)
    THEN IF SliceFrom(text, idx) = self.segments[i] THEN {<<>>} ELSE {}
    ELSE IF ~StartsWith(text, self.segments[i], idx) THEN {}
    ELSE UNION {{<<v>> \o rest : v \in ValuesOf(self.fields[i].v,
                                               Slice(text, idx + Len(self.segments[i]), e)),
                                 rest \in Originals(self, text, i + 1, e)} :
                e \in (idx + Len(self.segments[i]))..Len(text)}

AsData(self, vals) == [i \in 1..Len(self.fields) |-> [k |-> self.fields[i].k, v |-> vals[i]]]

RoundTrips(self, f, vals) == Succeeded(f) /\ f.ret.data = AsData(self, vals)

\* the text of the value of field i is trimmed, does not hold the literal
\* that follows the field and, for an any field, is not the text of another
\* value
Delimited(self, vals, i, vt) ==
    /\ Strip(vt) = vt
    /\ Find(vt \o self.segments[i + 1], self.segments[i + 1], 0) = Len(vt)
    /\ (self.fields[i].v.tag = "any" /\ vals[i].t = "str") =>
          (~json_loads(vt).ok /\ ~StartsWith(vt, <<"{">>, 0))

\* every literal of the template is non-empty, the rendering is not changed
\* by the preprocessing and every value is delimited
Delimitable(self, vals) ==
    /\ \A i \in 1..Len(self.segments) : self.segments[i] # <<>>
    /\ strip_think_tags(Render(self, vals, 1)) = Render(self, vals, 1)
    /\ \A i \in 1..Len(self.fields) : Delimited(self, vals, i, RenderValue(vals[i]))

RecordParser(self) == Len(self.fields) = 1 /\ self.fields[1].v.tag = "model"
\* the text captured for the field from window c, and whether it is JSON that
\* satisfies the schema cls
CapturedIn(self, c) == DictGet(ExtractAll(self, c, 1, 0, Unbound, <<>>).data, self.fields[1].k).s
ConformingJson(j, cls) == j.ok /\ Conforms(j.v, cls)
ConformingWindow(self, c) ==
    /\ ExtractAll(self, c.s, 1, 0, Unbound, <<>>).st = "ok"
    /\ ConformingJson(json_loads(CapturedIn(self, c.s)), self.fields[1].v.arg)

\* the window of the latest try block
LastTried(self, f) == IF self.segments[1] = <<>> THEN Some(f.out) ELSE f.last_candidate

\* C7: for a record field validate succeeds iff the captured text is JSON
\* that satisfies the schema at every depth; any violation gives
\* success = false and an error that names the field.
C7_RecordIffConforms ==
    (RecordParser(parser) /\ Ended /\ frame.tried # <<>>) =>
        /\ frame.pc = "done"
        /\ frame.ret.success <=> ConformingWindow(parser, LastTried(parser, frame))
        /\ ~frame.ret.success =>
              (frame.ret.error.field = parser.fields[1].k /\ ~frame.ret.matched_output.none)

\* the parser of the regex template, its pattern P, and the value captured
\* from a window: the text between the leading literal and the first trailing
\* literal
RegexParser(self) == self.template = TplRegex
PatternOf(self) == self.template[2].regex
CapturedUpTo(self, c, end) == Strip(Slice(c, Len(self.segments[1]), end))
CapturedValue(self, c) ==
    CapturedUpTo(self, c, Find(c, self.segments[2], Len(self.segments[1])))

\* the value captured from window c matches P and is the data returned
RegexAccepts(self, f, c) ==
    /\ RegexSearch(PatternOf(self), CapturedValue(self, c.s))
    /\ f.ret.data = <<[k |-> self.fields[1].k, v |-> VStr(CapturedValue(self, c.s))]>>

\* C8: for a field {f:str:regex=P} validate succeeds only on a window whose
\* captured value matches P, and returns that value unchanged; when no
\* window's captured value matches P it returns success = false.
C8_RegexField ==
    (RegexParser(parser) /\ Ended) =>
        /\ frame.pc = "done"
        /\ frame.ret.success => RegexAccepts(parser, frame, frame.ret.matched_output)
        /\ (\A k \in 1..Len(frame.matches) :
               \/ WindowOf(parser, frame, k).none
               \/ ~RegexSearch(PatternOf(parser),
                               CapturedValue(parser, WindowOf(parser, frame, k).s)))
             => ~frame.ret.success

\* both cases happen: a window whose value does not match was rejected, then
\* a later one whose value matches was returned
C8_Witness ==
    /\ RegexParser(parser)
    /\ Succeeded(frame)
    /\ Len(frame.tried) > 1

\* C9: a call with a parser invokes the provider at most 1 + max_retry times;
\* it ends in success as soon as an output validates and in failure after
\* exactly max_retry + 1 invocations when none does.
C9_RetryBound ==
    /\ call.invocations <= 1 + call.max_retry
    /\ (call.pc = "while" /\ Succeeded(frame)) => ~ENABLED LLMRetry
    /\ (~call.tool /\ call.pc # "idle") =>
          /\ call.pc # "raised"
          /\ (call.pc = "returned" /\ ~frame.ret.success) =>
                call.invocations = call.max_retry + 1

\* C10: when the retries are used up the result returned carries the last
\* raw provider output and the validation error of that output.
C10_ExhaustionCarriesRawOutput ==
    (call.pc = "returned" /\ ~call.tool /\ ~frame.ret.success) =>
        /\ frame.ret.error = validate(parser, call.last_content).ret.error
        /\ frame.ret.matched_output = Some(call.last_content)

\* the offset in mo where the extraction loop, from field i on with the cursor
\* at idx, leaves the cursor
RECURSIVE CursorAfter(_, _, _, _)
CursorAfter(self, mo, i, idx) ==
    IF i > Len(self.fields) THEN idx
    ELSE CursorAfter(self, mo, i + 1, ExtractField(self, mo, i, idx, Unbound).idx)

\* mo is what extraction consumed: it starts with the leading literal and
\* ends with the trailing literal, which is at the cursor after the last field
ConsumedWhole(self, mo, idx) ==
    /\ StartsWith(mo, self.segments[1], 0)
    /\ StartsWith(mo, self.segments[Len(self.segments)], idx)
    /\ idx + Len(self.segments[Len(self.segments)]) = Len(mo)

\* C13: on success matched_output is exactly the text that extraction
\* consumed: it starts at the leading literal and ends where the last value
\* and the trailing literal end, with nothing after.
C13_MatchedIsConsumed ==
    Succeeded(frame) =>
        ConsumedWhole(parser, frame.ret.matched_output.s,
                      CursorAfter(parser, frame.ret.matched_output.s, 1, 0))

\* the positions of the placeholders of a template
Placeholders(template) == {i \in 1..Len(template) : template[i].k = "ph"}

\* C14: every constructed parser has len(segments) = len(fields) + 1, and no
\* operation other than construction changes the parser.
C14_SegmentsArity ==
    /\ [](Len(parser.segments) = Len(parser.fields) + 1)
    /\ [][UNCHANGED parser \/ Construct]_vars

\* C15: no parser is produced for a template in which two placeholders share
\* a field name.
C15_DuplicateNameRejected ==
    \A i, j \in Placeholders(parser.template) :
        parser.template[i].name = parser.template[j].name => i = j

\* C16: no parser is produced for a template with a placeholder
\* {name:json:Schema} whose Schema is not in the registry.
C16_UnknownSchemaRejected ==
    \A i \in Placeholders(parser.template) :
        (parser.template[i].typ = "json" /\ parser.template[i].model # "") =>
            parser.template[i].model \in parser.model_map

\* the latest try block got past extraction, and the text it captured for the
\* parser's one field
Extracted(self, f) ==
    /\ Ended
    /\ f.tried # <<>>
    /\ ExtractAll(self, LastTried(self, f).s, 1, 0, Unbound, <<>>).st = "ok"
CapturedLast(self, f) == CapturedIn(self, LastTried(self, f).s)

\* the call succeeded with v as the value of the parser's one field
ReturnsValue(self, f, v) ==
    Succeeded(f) /\ f.ret.data = <<[k |-> self.fields[1].k, v |-> v]>>

\* true/1 and false/0 in any case as a bool, any other text as it is
BoolOf(x) ==
    IF Len(x) = 1 /\ Lower(x[1]) \in {"true", "1"} THEN VBool(TRUE)
    ELSE IF Len(x) = 1 /\ Lower(x[1]) \in {"false", "0"} THEN VBool(FALSE)
    ELSE VStr(x)

\* C18: for a bool field the captured tokens true/1 become true and false/0
\* false, in any case; any other captured text is left as it is and does not
\* make the parse fail.
C18_BoolTokens ==
    (parser.template = TplBool /\ Extracted(parser, frame)) =>
        ReturnsValue(parser, frame, BoolOf(CapturedLast(parser, frame)))

\* C19: for a list or dict field a captured text that does not decode is kept
\* unchanged as the field's value and the parse does not fail because of it.
C19_UndecodedKept ==
    (/\ parser.template \in {TplList, TplDict}
     /\ Extracted(parser, frame)
     /\ ~py_eval(CapturedLast(parser, frame)).ok) =>
        ReturnsValue(parser, frame, VStr(CapturedLast(parser, frame)))

\* the fields of a class that are lists of records
TableFields(cls) ==
    {i \in 1..Len(ModelFields(cls)) : ElemOf(ModelFields(cls)[i].typ) \in ModelNames}

\* a row text is well-formed for a row schema: as many items as fields, and
\* digits for every int field
WellFormedRow(headers, items) ==
    /\ Len(items) = Len(headers)
    /\ \A i \in 1..Len(headers) : headers[i].typ = "int" => AllDigits(items[i])

\* the well-formed rows of a text, in input order, each with the schema's
\* fields by position
RowOf(headers, items) ==
    [k |-> "",
     v |-> VObj([i \in 1..Len(headers) |->
                   [k |-> headers[i].name,
                    v |-> IF headers[i].typ = "int" THEN VInt(ToInt(items[i]))
                          ELSE VStr(items[i])]])]
WellFormedRows(headers, text) ==
    LET all == [i \in 1..Len(RowMatches(text, 0)) |-> RowItems(headers, RowMatches(text, 0)[i])]
        good == SelectSeq(all, LAMBDA items : WellFormedRow(headers, items))
    IN  [i \in 1..Len(good) |-> RowOf(headers, good[i])]

\* the call succeeded with these rows as the table
ReturnsRows(self, f, rows) ==
    /\ Succeeded(f)
    /\ f.ret.data = <<[k |-> "table", v |-> VObj(<<[k |-> self.table_field, v |-> VList(rows)]>>)]>>

\* the text whose rows a value-only call reads: the text given to
\* TableParser.validate, without its reasoning markup
RowsText == strip_think_tags(llm_output)

\* C11: in value-only mode a row with the wrong number of items or an item
\* that fails coercion is dropped and never makes the table fail: validate
\* succeeds and its rows are the well-formed rows, in input order.
C11_RowFaultIsolation ==
    (table.built /\ table.value_only /\ frame.pc # "idle") =>
        /\ Succeeded(frame)
        /\ ReturnsRows(table, frame,
                       WellFormedRows(ModelFields(table.row_model), RowsText))

\* C17: no table parser is produced unless the table schema has exactly one
\* field that is a list of records.
C17_ExactlyOneTableField ==
    table.built => Cardinality(TableFields(table.table_model)) = 1

C20_InstructionsPure ==
    \A i, j \in 1..Len(instructions) :
        instructions[i].parser = instructions[j].parser =>
            instructions[i].text = instructions[j].text

\* every offset where a literal occurs in a text, in increasing order
RECURSIVE Ascending(_)
Ascending(S) == IF S = {} THEN <<>> ELSE <<Min(S)>> \o Ascending(S \ {Min(S)})

\* the window that starts at offset p: up to the end of the last occurrence
\* of the trailing literal at or after p, or the rest of the text when the
\* trailing literal is empty; None when the trailing literal is not there
WindowFrom(s, p, end_str) ==
    IF end_str = <<>> THEN Some(SliceFrom(s, p))
    ELSE IF {q \in Occurrences(s, end_str) : q >= p} = {} THEN None
    ELSE Some(Slice(s, p, Max({q \in Occurrences(s, end_str) : q >= p}) + Len(end_str)))

\* C21: with a non-empty leading literal the windows are one per occurrence
\* of the leading literal in the text, every occurrence, from left to right,
\* each up to the end of the last occurrence of the trailing literal at or
\* after it, or to the end of the text when the trailing literal is empty.
C21_WindowPerOccurrence ==
    (parser.segments[1] # <<>> /\ frame.pc # "idle") =>
        /\ frame.matches = Ascending(Occurrences(frame.out, parser.segments[1]))
        /\ \A k \in 1..Len(frame.matches) :
              WindowOf(parser, frame, k) =
                  WindowFrom(frame.out, frame.matches[k], parser.segments[Len(parser.segments)])

\* the number of lexemes c among the first n of s
RECURSIVE CountIn(_, _, _)
CountIn(s, n, c) == IF n = 0 THEN 0 ELSE CountIn(s, n - 1, c) + (IF s[n] = c THEN 1 ELSE 0)

\* the lengths of the prefixes of s that end at a close which balances the
\* open that s starts with
Balances(s, open, close) ==
    {n \in 1..Len(s) :
        /\ s[1] = open /\ s[n] = close
        /\ CountIn(s, n, open) = CountIn(s, n, close)
        /\ \A m \in 1..(n - 1) : CountIn(s, m, open) > CountIn(s, m, close)}

\* the parser has one field, a list, dict, json or record field, after a
\* non-empty leading literal; its opening bracket
ContainerParser(self) ==
    /\ Len(self.fields) = 1 /\ self.segments[1] # <<>>
    /\ IsList(self.fields[1].v) \/ IsBrace(self.fields[1].v)
OpenOf(self) == IF IsList(self.fields[1].v) THEN "[" ELSE "{"
CloseOf(self) == IF IsList(self.fields[1].v) THEN "]" ELSE "}"
\* the text of window mo from the start of the field on
ValueText(self, mo) == SliceFrom(mo, Len(self.segments[1]))

\* C22: the value of a list, dict, json or record field ends at the bracket
\* that balances its opening bracket, whether the literal after the field is
\* empty or not and whatever occurs inside the value.
C22_BalancedClose ==
    (/\ ContainerParser(parser) /\ Extracted(parser, frame)
     /\ Balances(ValueText(parser, LastTried(parser, frame).s), OpenOf(parser), CloseOf(parser)) # {}) =>
        CapturedLast(parser, frame) =
            SubSeq(ValueText(parser, LastTried(parser, frame).s), 1,
                   Min(Balances(ValueText(parser, LastTried(parser, frame).s),
                                OpenOf(parser), CloseOf(parser))))

\* the parser has one field, a str or json/any field, between a non-empty
\* leading literal and an empty trailing literal
TailParser(self) ==
    /\ Len(self.fields) = 1 /\ self.segments[1] # <<>> /\ self.segments[2] = <<>>
    /\ self.fields[1].v.tag \in {"str", "any"}

\* the rest of a window as the value of the field: decoded when it is a
\* json/any field and the rest is JSON, the text itself otherwise
RestValue(typ, rest) ==
    IF typ.tag = "any" /\ json_loads(rest).ok THEN json_loads(rest).v ELSE VStr(rest)

\* C23: a final str or json/any field takes the rest of the window from the
\* cursor; a json/any field is decoded when the rest is JSON and is the raw
\* text otherwise, and the call succeeds with it.
C23_RestOfWindow ==
    (/\ TailParser(parser) /\ Ended /\ frame.tried # <<>>
     /\ StartsWith(LastTried(parser, frame).s, parser.segments[1], 0)) =>
        ReturnsValue(parser, frame,
                     RestValue(parser.fields[1].v, ValueText(parser, LastTried(parser, frame).s)))

\* the parser has two fields, a str field between two non-empty literals and
\* a field after it
TwoFieldParser(self) ==
    /\ Len(self.fields) = 2 /\ Len(self.segments) = 3
    /\ self.segments[1] # <<>> /\ self.segments[2] # <<>>
    /\ self.fields[1].v.tag = "str"
\* where the literal between the two fields is in window mo, and the texts at
\* the positions of the first and of the second field
MiddleAt(self, mo) == Min({q \in Occurrences(mo, self.segments[2]) : q >= Len(self.segments[1])})
FirstText(self, mo) == Slice(mo, Len(self.segments[1]), MiddleAt(self, mo))
SecondText(self, mo) == SliceFrom(mo, MiddleAt(self, mo) + Len(self.segments[2]))
\* the text captured for the field at position i from window mo
CapturedAt(self, mo, i) == DictGet(ExtractAll(self, mo, 1, 0, Unbound, <<>>).data, self.fields[i].k).s
IsPrefix(x, y) == Len(x) <= Len(y) /\ x = SubSeq(y, 1, Len(x))

\* C24: in a successful parse each field's value is taken from the text at
\* the field's own position in the window: the first field's between its two
\* literals, the second field's from behind the literal that follows the
\* first; no field gets the text captured for the other.
C24_OwnPosition ==
    (TwoFieldParser(parser) /\ Succeeded(frame)) =>
        /\ CapturedAt(parser, frame.ret.matched_output.s, 1) =
               Strip(FirstText(parser, frame.ret.matched_output.s))
        /\ IsPrefix(CapturedAt(parser, frame.ret.matched_output.s, 2),
                    Strip(SecondText(parser, frame.ret.matched_output.s)))

\* the pieces of a row text between the commas that are outside quotes: q is
\* the quote that is open at lexeme i, "" when none is
RECURSIVE Pieces(_, _, _, _)
Pieces(m, i, q, cur) ==
    IF i > Len(m) THEN <<cur>>
    ELSE IF q = "" /\ m[i] = "," THEN <<cur>> \o Pieces(m, i + 1, "", <<>>)
    ELSE Pieces(m, i + 1,
                IF q = "" /\ m[i] \in {"\"", "'"} THEN m[i] ELSE IF m[i] = q THEN "" ELSE q,
                Append(cur, m[i]))
\* a piece without the blanks around it is a plain text without quotes, or a
\* text without quotes between two equal quotes; and the item it stands for
Unquoted(p) == \A i \in 1..Len(p) : p[i] \notin {"\"", "'"}
WellQuoted(p) ==
    LET t == StripChars(p, WS)
    IN  /\ t # <<>>
        /\ \/ Unquoted(t)
           \/ /\ Len(t) >= 2 /\ t[1] \in {"\"", "'"} /\ t[Len(t)] = t[1]
              /\ Unquoted(SubSeq(t, 2, Len(t) - 1))
ItemOf(p) ==
    LET t == StripChars(p, WS)
    IN  IF Unquoted(t) THEN t ELSE SubSeq(t, 2, Len(t) - 1)
QuotedItems(m) == [i \in 1..Len(Pieces(m, 1, "", <<>>)) |-> ItemOf(Pieces(m, 1, "", <<>>)[i])]

\* a value-only call on a table with a row schema has been made
ValueOnlyCall == table.built /\ table.value_only /\ table.row_model # "None" /\ frame.pc # "idle"

\* C25: a row is split into items only at the commas outside quotes: a comma
\* inside a quoted item does not split it, whatever blanks are around the
\* quotes.
C25_SplitOutsideQuotes ==
    ValueOnlyCall =>
        \A i \in 1..Len(RowMatches(RowsText, 0)) :
            (\A j \in 1..Len(Pieces(RowMatches(RowsText, 0)[i], 1, "", <<>>)) :
                WellQuoted(Pieces(RowMatches(RowsText, 0)[i], 1, "", <<>>)[j])) =>
                RowItems(ModelFields(table.row_model), RowMatches(RowsText, 0)[i]) =
                    QuotedItems(RowMatches(RowsText, 0)[i])

\* a row of the text has not as many items as the row schema has fields
WrongArity(headers, text) ==
    \E i \in 1..Len(RowMatches(text, 0)) :
        Len(RowItems(headers, RowMatches(text, 0)[i])) # Len(headers)

\* C26: the skip-or-raise option governs both kinds of bad row: when raise is
\* configured a row of the wrong arity raises, as a row with an item that
\* fails coercion does; when skip is configured both are dropped.
C26_RaiseGovernsArity ==
    (ValueOnlyCall /\ WrongArity(ModelFields(table.row_model), RowsText)) =>
        IF table.skip_on_type_error THEN frame.pc = "done" ELSE frame.pc = "raised"

\* a <think> or </think> tag stands somewhere in s
HasThinkTag(s) == \E i \in 0..(Len(s) - 1) : IsOpenTag(s, i) \/ IsCloseTag(s, i)

\* C27: the text that strip_think_tags returns holds no <think> and no
\* </think> tag, and stripping it a second time changes nothing.
C27_NoTagLeft ==
    frame.pc # "idle" =>
        /\ ~HasThinkTag(frame.out)
        /\ strip_think_tags(frame.out) = frame.out

\* a text without its <think>...</think> regions and its think tags
Unmarked(text) == RemoveOrphans(RemovePaired(text))

\* C28: the preprocessing changes nothing but the reasoning markup: the text
\* that reaches extraction is the text given to validate without its regions
\* and tags, every other character unchanged and in order.
C28_OnlyMarkupRemoved ==
    frame.pc # "idle" => frame.out = Unmarked(llm_output)

C30_ConsecutiveToolBound ==
    ~agent.asynchronous =>
    \A i \in 1..Len(agent.tool_calls) :
        (\A j \in 1..i : agent.tool_calls[j] = agent.tool_calls[1] + j - 1) =>
            i <= agent.max_consecutive_tools

=============================================================================
